---- MODULE Spec2Model ----
(***************************************************************************)
(* A model of organize-cli: organize (core.py) walks a folder, removes     *)
(* content duplicates, relocates files into category folders and writes a  *)
(* ledger; restore (restore.py) replays the ledger backwards.              *)
(*                                                                         *)
(* A directory is the sequence of its components below the target folder   *)
(* (<<>> is the folder itself).  A file name is a record                    *)
(* [stem, sfx, ext]: sfx is the sequence of "(i)" disambiguators that       *)
(* follow the stem, so [stem |-> "a", sfx |-> <<1>>, ext |-> ".mp3"] is     *)
(* "a(1).mp3".  A path is <<directory, name>>.                              *)
(***************************************************************************)
EXTENDS Integers, Sequences, FiniteSets, TLC

\* ------------------------------------------------------------------ bounds
MaxFiles == 2        \* files in the folder at the start
MaxContent == 2      \* distinct byte contents
MaxOps == 2          \* organize / restore invocations in one behaviour
MaxErrs == 1         \* I/O errors in one behaviour
MaxMoves == 3        \* safe_move calls in SafeMoveSpec
MaxRecords == 2      \* records of a hand-made ledger in RestoreSpec

\* --------------------------------------------------------------- constants
LOG_FILE == [stem |-> ".organize_log", sfx |-> <<>>, ext |-> ".json"]

FILE_TYPES ==
  << [k |-> "Audio",
      v |-> {".mp3", ".wav", ".aac", ".flac", ".m4a", ".ogg", ".wma", ".aiff", ".alac", ".opus"}],
     [k |-> "Video",
      v |-> {".mp4", ".mkv", ".avi", ".mov", ".wmv", ".flv", ".webm", ".m4v", ".3gp", ".mpeg", ".mpg"}],
     [k |-> "Images",
      v |-> {".jpg", ".jpeg", ".png", ".gif", ".bmp", ".webp", ".tiff", ".svg", ".ico", ".heic", ".raw", ".cr2", ".nef"}],
     [k |-> "Documents",
      v |-> {".pdf", ".doc", ".docx", ".txt", ".rtf", ".odt", ".md", ".epub"}],
     [k |-> "Spreadsheets",
      v |-> {".xls", ".xlsx", ".csv", ".ods", ".tsv"}],
     [k |-> "Presentations",
      v |-> {".ppt", ".pptx", ".odp", ".key"}],
     [k |-> "Code",
      v |-> {".py", ".java", ".c", ".cpp", ".js", ".ts", ".html", ".css", ".json", ".xml",
             ".sh", ".php", ".go", ".rs", ".kt", ".swift", ".rb", ".sql", ".yaml", ".yml"}],
     [k |-> "Archives",
      v |-> {".zip", ".rar", ".7z", ".tar", ".gz", ".bz2", ".xz", ".iso"}],
     [k |-> "Executables",
      v |-> {".exe", ".msi", ".deb", ".rpm", ".appimage", ".dmg", ".pkg", ".bin", ".run"}],
     [k |-> "Fonts",
      v |-> {".ttf", ".otf", ".woff", ".woff2", ".eot"}] >>

\* a classifier that looks the extension up as it is spelled
LowerIdentity(ext) == ext

\* str.lower() on the extensions the model uses.  ".g<U+0131>f" stands for
\* the extension spelled with LATIN SMALL LETTER DOTLESS I, which lower()
\* leaves alone and upper() turns into "I"
Lower(ext) ==
  CASE ext = ".MP3" -> ".mp3"
    [] ext = ".Mp3" -> ".mp3"
    [] ext = ".PDF" -> ".pdf"
    [] ext = ".Pdf" -> ".pdf"
    [] ext = ".GIF" -> ".gif"
    [] ext = ".XYZ" -> ".xyz"
    [] OTHER -> ext


\* ------------------------------------------------------------ path helpers
\* the target folder itself
Folder == <<>>

Name(stem, ext) == [stem |-> stem, sfx |-> <<>>, ext |-> ext]

\* os.path.join(root, f)
Join(dir, name) == <<dir, name>>

\* os.path.dirname / os.path.basename of a file path
Dirname(path) == path[1]
Basename(path) == path[2]

\* os.path.splitext(name): <<base, ext>>, base being the name without ext
Splitext(name) == << [stem |-> name.stem, sfx |-> name.sfx], name.ext >>

\* base + ext, and f"{base}({i}){ext}"
Plain(base, ext) == [stem |-> base.stem, sfx |-> base.sfx, ext |-> ext]
Numbered(base, i, ext) == [stem |-> base.stem, sfx |-> Append(base.sfx, i), ext |-> ext]

\* a folder argument is the sequence of its components, "/" first when it
\* is absolute: the default os.getcwd(), and what a user may type
AbsFolder == << "/", "home", "dl" >>
FolderArgs == { AbsFolder, << "dl" >>, << "." >> }

\* os.path.join(folder, ...): the string organize builds for a path of the tree
PathString(fld, path) == fld \o Dirname(path) \o << Basename(path) >>

\* os.path.isabs
IsAbs(sq) == sq # << >> /\ sq[1] = "/"

\* a mkdir that makes the last directory only
PrefixesLeafOnly(d) == { d }

\* d and all its ancestors (what os.makedirs(d, exist_ok=True) makes exist)
Prefixes(d) == { SubSeq(d, 1, n) : n \in 0..Len(d) }

\* a walk that lists the subdirectories of the folder itself and goes no deeper
SubdirsTopOnly(ds, d) ==
  IF d = Folder THEN { e \in ds : Len(e) = 1 } ELSE {}

\* the directories directly inside d
Subdirs(ds, d) == { e \in ds : Len(e) = Len(d) + 1 /\ SubSeq(e, 1, Len(d)) = d }

\* the file names directly inside d
FilesIn(fsys, d) == { p[2] : p \in { q \in DOMAIN fsys : q[1] = d } }

\* sha256(path): the digest stands for the content, equal bytes give equal
\* digests and different bytes different ones
sha256(fsys, path) == [digest |-> fsys[path].content]

\* ------------------------------------------------------------- classifier
RECURSIVE categoryFrom(_, _)
\* a classifier without the fallback category
categoryFromNoFallback(ext, i) ==
  IF i > Len(FILE_TYPES) THEN ""
  ELSE IF ext \in FILE_TYPES[i].v THEN FILE_TYPES[i].k
  ELSE categoryFrom(ext, i + 1)

categoryFrom(ext, i) ==
  IF i > Len(FILE_TYPES) THEN "Others"
  ELSE IF ext \in FILE_TYPES[i].v THEN FILE_TYPES[i].k
  ELSE categoryFrom(ext, i + 1)

category(ext) == categoryFrom(Lower(ext), 1)

\* --------------------------------------------------------------- safe_move
\* the name search of safe_move: base+ext, then base(1)ext, base(2)ext, ...
RECURSIVE NewNameFrom(_, _, _, _, _)
NewNameFrom(fsys, dest, base, ext, i) ==
  IF Join(dest, Numbered(base, i, ext)) \in DOMAIN fsys
  THEN NewNameFrom(fsys, dest, base, ext, i + 1)
  ELSE Join(dest, Numbered(base, i, ext))

\* a safe_move without the name search: it lands on base+ext whatever is there
NewPathNoSearch(fsys, src, dest) == Join(dest, Basename(src))

NewPath(fsys, src, dest) ==
  LET se == Splitext(Basename(src))
      new == Join(dest, Plain(se[1], se[2]))
  IN IF new \in DOMAIN fsys THEN NewNameFrom(fsys, dest, se[1], se[2], 1) ELSE new

\* a move that leaves the source behind (a copy)
MoveKeepingSource(fsys, src, dst) ==
  [p \in DOMAIN fsys \cup {dst} |-> IF p = dst THEN fsys[src] ELSE fsys[p]]

\* shutil.move(src, dst) of a file onto a file path: a rename, which
\* replaces whatever file is at dst
Move(fsys, src, dst) ==
  [p \in (DOMAIN fsys \ {src}) \cup {dst} |-> IF p = dst THEN fsys[src] ELSE fsys[p]]

\* the files after a successful safe_move(src, dest)
SafeMoved(fsys, src, dest) == Move(fsys, src, NewPath(fsys, src, dest))

\* os.remove(path)
Remove(fsys, path) == [p \in DOMAIN fsys \ {path} |-> fsys[p]]

\* ------------------------------------------------------------------- state
VARIABLES
  fs,              \* the files of the tree: path -> [id, content]
  dirs,            \* the directories that exist
  ledger,          \* <folder>/.organize_log.json: [kind, timestamp, moves]
  pc,              \* "idle", "walk" (inside organize), "restore" (inside restore)
  dry_run,         \* organize's dry_run argument
  seen,            \* organize's seen: digest -> path
  log,             \* organize's log: sequence of [from, to]
  skipped,         \* organize's skipped counter
  stack,           \* os.walk: per level, the directories still to visit
  root,            \* os.walk: the directory being listed
  files,           \* os.walk: names of root not yet handled by the loop
  queue,           \* restore: the records still to process, next one first
  restored_count,  \* restore's restored_count
  failed_count,    \* restore's failed_count
  clock,           \* datetime.now(): advances with every invocation
  budget,          \* the invocations the behaviour may still start
  fs0,             \* history: fs when the current invocation started
  dirs0,           \* history: dirs when the current invocation started
  ledger0,         \* history: ledger when the current invocation started
  term,            \* history: [id, st, at] for every file the walk has handled
  ioerr,           \* history: an I/O error happened in the current invocation
  nerr,            \* history: the I/O errors so far
  hist,            \* history: one record per finished invocation
  folder           \* the folder argument as it was given: its path components

vars == << fs, dirs, ledger, pc, dry_run, seen, log, skipped, stack, root, files,
           queue, restored_count, failed_count, clock, budget, fs0, dirs0, ledger0, term,
           ioerr, nerr, hist, folder >>

walkVars == << stack, root, files >>
restoreVars == << queue, restored_count, failed_count >>
startVars == << clock, budget, fs0, dirs0, ledger0, hist, folder >>

Contents == 1..MaxContent

NoLedger == [kind |-> "none", timestamp |-> 0, moves |-> <<>>]

\* the places a file can be at when a tree is first organized
InitPaths ==
  { Join(Folder, Name("a", ".mp3")), Join(Folder, Name("b", ".mp3")),
    Join(Folder, Name("a", ".pdf")), Join(<<"sub">>, Name("a", ".mp3")),
    Join(<<"Audio">>, Name("a", ".mp3")), Join(<<"Audio">>, Name("a", ".pdf")) }

\* category folders that may exist, empty, before the first run
InitEmpty == { <<"Audio">>, <<"Documents">> }

\* the ledger a folder may hold from an earlier run, whose file may have
\* been touched since: b.mp3 was moved into Audio
InitLedgers ==
  { NoLedger,
    [kind |-> "ok", timestamp |-> 0,
     moves |-> << [from |-> Join(Folder, Name("b", ".mp3")),
                   to |-> Join(<<"Audio">>, Name("b", ".mp3"))] >>] }

\* contents are told apart only by equality: content k+1 is used only when
\* content k is
Canonical(c) ==
  \A k \in Contents : (\E p \in DOMAIN c : c[p] = k) =>
                        (k = 1 \/ \E p \in DOMAIN c : c[p] = k - 1)

\* the states a tree can be in: up to MaxFiles files, each directory that
\* holds a file exists, category folders may exist empty
TreeInit ==
  \E P \in { Q \in SUBSET InitPaths : Cardinality(Q) <= MaxFiles } :
    \E c \in { x \in [P -> Contents] : Canonical(x) } :
      \E extra \in SUBSET InitEmpty :
        /\ fs = [p \in P |-> [id |-> p, content |-> c[p]]]
        /\ dirs = {Folder} \cup { Dirname(p) : p \in P } \cup extra

RunInit ==
  /\ dry_run = FALSE
  /\ seen = << >>
  /\ log = << >>
  /\ skipped = 0
  /\ stack = << >>
  /\ root = Folder
  /\ files = {}
  /\ queue = << >>
  /\ restored_count = 0
  /\ failed_count = 0
  /\ clock = 0
  /\ fs0 = fs
  /\ dirs0 = dirs
  /\ ledger0 = ledger
  /\ term = {}
  /\ ioerr = FALSE
  /\ nerr = 0
  /\ hist = << >>

Init ==
  /\ TreeInit
  /\ ledger \in InitLedgers
  /\ pc = "idle"
  /\ budget = MaxOps
  /\ folder = AbsFolder
  /\ RunInit

\* ----------------------------------------------------------------- os.walk
\* drop the levels that have no directory left
RECURSIVE Norm(_)
\* a walk that never returns from a level it has finished
NormKeep(st) == st

Norm(st) == IF st # << >> /\ st[Len(st)] = {} THEN Norm(SubSeq(st, 1, Len(st) - 1)) ELSE st

\* what os.walk lists as the files of d
Listing(fsys, led, d) ==
  FilesIn(fsys, d) \cup (IF d = Folder /\ led.kind # "none" THEN {LOG_FILE} ELSE {})

\* ---------------------------------------------------------------- organize
\* organize(folder, dry_run): the checks pass, the locals are set up and
\* os.walk lists the folder itself
StartOrganize(dry) ==
  /\ pc = "idle"
  /\ budget > 0
  /\ budget' = budget - 1
  /\ pc' = "walk"
  /\ dry_run' = dry
  /\ seen' = << >>
  /\ log' = << >>
  /\ skipped' = 0
  /\ root' = Folder
  /\ files' = Listing(fs, ledger, Folder)
  /\ stack' = Norm(<< Subdirs(dirs, Folder) >>)
  /\ clock' = clock + 1
  /\ fs0' = fs
  /\ dirs0' = dirs
  /\ ledger0' = ledger
  /\ term' = {}
  /\ ioerr' = FALSE
  /\ UNCHANGED nerr
  /\ UNCHANGED << fs, dirs, ledger, restoreVars, hist, folder >>

\* os.walk moves on to the next directory (top-down, depth first, siblings
\* in the order the file system lists them) and lists it
NextDir ==
  /\ pc = "walk"
  /\ files = {}
  /\ stack # << >>
  /\ \E d \in stack[Len(stack)] :
       /\ root' = d
       /\ files' = Listing(fs, ledger, d)
       /\ stack' = Norm(Append([stack EXCEPT ![Len(stack)] = @ \ {d}], Subdirs(dirs, d)))
  /\ UNCHANGED << fs, dirs, ledger, pc, dry_run, seen, log, skipped, restoreVars,
                  startVars, term, ioerr, nerr >>

\* an I/O error happens
Fault ==
  /\ nerr < MaxErrs
  /\ ioerr' = TRUE
  /\ nerr' = nerr + 1

\* what one iteration of the loop leaves alone whatever it does
IterFrame(f) ==
  /\ files' = files \ {f}
  /\ UNCHANGED << ledger, pc, dry_run, stack, root, restoreVars, startVars >>

\* the walk gave the file at src the state st
Event(src, st) == [id |-> fs[src].id, st |-> st, at |-> src]

\* a walk that handles the ledger like any other file: a .json file, which
\* a live run relocates into its category folder
RelocateLogFile ==
  /\ pc = "walk"
  /\ \E f \in files :
       /\ f = LOG_FILE
       /\ files' = files \ {f}
       /\ log' = IF dry_run THEN log
                 ELSE Append(log, [from |-> Join(root, f),
                                   to |-> Join(<< category(Splitext(f)[2]) >>, f)])
       /\ ledger' = IF dry_run THEN ledger ELSE NoLedger
       /\ UNCHANGED << pc, dry_run, stack, root, restoreVars, startVars >>
       /\ UNCHANGED << fs, dirs, seen, skipped, term, ioerr, nerr >>

\* if f == LOG_FILE: continue
SkipLogFile ==
  /\ pc = "walk"
  /\ \E f \in files :
       /\ f = LOG_FILE
       /\ IterFrame(f)
       /\ UNCHANGED << fs, dirs, seen, log, skipped, term, ioerr, nerr >>

\* sha256(src) raises: the file is skipped
SkipUnreadable ==
  /\ pc = "walk"
  /\ \E f \in files :
       /\ f # LOG_FILE
       /\ IterFrame(f)
       /\ skipped' = skipped + 1
       /\ term' = term \cup {Event(Join(root, f), "Skipped-Error")}
       /\ Fault
       /\ UNCHANGED << fs, dirs, seen, log >>

\* a run that forgets to look at dry_run
LiveAlways(dry) == TRUE

\* if not dry_run
Live(dry) == ~dry

\* a run that writes the ledger even when it moved nothing
WritesLedgerWhenLive(dry, lg) == Live(dry)

\* if not dry_run and log
WritesLedger(dry, lg) == Live(dry) /\ lg # << >>

\* a walk that takes every file for the first of its content
IsDuplicateNever(h, sn) == FALSE

\* if h in seen
IsDuplicate(h, sn) == h \in DOMAIN sn

\* the duplicate branch: os.remove(src) unless dry_run
HandleDuplicate ==
  /\ pc = "walk"
  /\ \E f \in files :
       LET src == Join(root, f) IN
       /\ f # LOG_FILE
       /\ IsDuplicate(sha256(fs, src), seen)
       /\ IterFrame(f)
       /\ \/ /\ ~Live(dry_run)
             /\ term' = term \cup {Event(src, "Duplicate-Removed")}
             /\ UNCHANGED << fs, ioerr, nerr >>
          \/ /\ Live(dry_run)
             /\ fs' = Remove(fs, src)
             /\ term' = term \cup {Event(src, "Duplicate-Removed")}
             /\ UNCHANGED << ioerr, nerr >>
       /\ UNCHANGED << dirs, seen, log, skipped >>

\* the duplicate branch of a live run when os.remove(src) raises: the
\* failure is reported, the file stays and skipped is not incremented
KeepDuplicate ==
  /\ pc = "walk"
  /\ \E f \in files :
       LET src == Join(root, f) IN
       /\ f # LOG_FILE
       /\ IsDuplicate(sha256(fs, src), seen)
       /\ Live(dry_run)
       /\ IterFrame(f)
       /\ Fault
       /\ term' = term \cup {Event(src, "Delete-Failed")}
       /\ UNCHANGED << fs, dirs, seen, log, skipped >>

\* seen[h] = src
Register(sn, h, src) == [x \in DOMAIN sn \cup {h} |-> IF x = h THEN src ELSE sn[x]]

\* a walk that never finds a file in place
NeverOrganized(src, dest_dir) == FALSE

\* if os.path.dirname(src) == dest_dir
AlreadyOrganized(src, dest_dir) == Dirname(src) = dest_dir

\* dest_dir = os.path.join(folder, category(ext)), ext the lower-cased extension
DestDir(f) == << category(Lower(Splitext(f)[2])) >>

\* a new file that is already inside its category folder: registered, left
KeepOrganized ==
  /\ pc = "walk"
  /\ \E f \in files :
       LET src == Join(root, f)
           h == sha256(fs, src) IN
       /\ f # LOG_FILE
       /\ ~IsDuplicate(h, seen)
       /\ AlreadyOrganized(src, DestDir(f))
       /\ IterFrame(f)
       /\ seen' = Register(seen, h, src)
       /\ term' = term \cup {Event(src, "Already-Organized")}
       /\ UNCHANGED << fs, dirs, log, skipped, ioerr, nerr >>

\* a new file outside its category folder: safe_move and a ledger record in
\* a live run, only the report in a preview run
Relocate ==
  /\ pc = "walk"
  /\ \E f \in files :
       LET src == Join(root, f)
           h == sha256(fs, src)
           dest_dir == DestDir(f)
           new_path == NewPath(fs, src, dest_dir) IN
       /\ f # LOG_FILE
       /\ ~IsDuplicate(h, seen)
       /\ ~AlreadyOrganized(src, dest_dir)
       /\ IterFrame(f)
       /\ seen' = Register(seen, h, src)
       /\ \/ /\ ~Live(dry_run)
             /\ term' = term \cup {Event(src, "Relocated")}
             /\ UNCHANGED << fs, dirs, log, skipped, ioerr, nerr >>
          \/ /\ Live(dry_run)
             /\ dirs' = dirs \cup Prefixes(dest_dir)
             /\ fs' = SafeMoved(fs, src, dest_dir)
             /\ log' = Append(log, [from |-> src, to |-> new_path])
             /\ term' = term \cup {Event(src, "Relocated")}
             /\ UNCHANGED << skipped, ioerr, nerr >>

\* a new file outside its category folder in a live run when safe_move
\* raises: os.makedirs failed, or it succeeded and shutil.move failed; the
\* file stays where it is and is counted as skipped
FailRelocate ==
  /\ pc = "walk"
  /\ \E f \in files :
       LET src == Join(root, f)
           h == sha256(fs, src)
           dest_dir == DestDir(f) IN
       /\ f # LOG_FILE
       /\ ~IsDuplicate(h, seen)
       /\ ~AlreadyOrganized(src, dest_dir)
       /\ Live(dry_run)
       /\ IterFrame(f)
       /\ seen' = Register(seen, h, src)
       /\ \E made \in BOOLEAN :
            dirs' = IF made THEN dirs \cup Prefixes(dest_dir) ELSE dirs
       /\ skipped' = skipped + 1
       /\ Fault
       /\ term' = term \cup {Event(src, "Skipped-Error")}
       /\ UNCHANGED << fs, log >>

\* the history record of a finished invocation: exc is the exception the
\* call raised ("none" when it returned), out the outcome it reported,
\* target what the folder argument named, folder the argument itself
Finished(op, err, led) ==
  [op |-> op, err |-> err, fs0 |-> fs0, dirs0 |-> dirs0, ledger0 |-> ledger0,
   fs1 |-> fs, dirs1 |-> dirs, ledger1 |-> led, log |-> log, term |-> term,
   skipped |-> skipped, restored |-> restored_count, failed |-> failed_count,
   exc |-> "none", out |-> "done", target |-> "dir", folder |-> folder]

\* a ledger opened for appending: the old records stay in front
AppendedLedger(old, now, lg) == [kind |-> "ok", timestamp |-> now, moves |-> old.moves \o lg]

\* open(LOG_FILE, "w") and json.dump({"timestamp": now, "moves": log}): the
\* file old is truncated and holds this run's records only
NewLedger(old, now, lg) == [kind |-> "ok", timestamp |-> now, moves |-> lg]

\* the walk is over: a live run that moved something writes the ledger
FinishOrganize ==
  /\ pc = "walk"
  /\ files = {}
  /\ stack = << >>
  /\ pc' = "idle"
  /\ LET op == IF dry_run THEN "preview" ELSE "organize" IN
     \/ /\ WritesLedger(dry_run, log)
        /\ ledger' = NewLedger(ledger, clock, log)
        /\ hist' = Append(hist, Finished(op, ioerr, ledger'))
     \/ /\ ~WritesLedger(dry_run, log)
        /\ hist' = Append(hist, Finished(op, ioerr, ledger))
        /\ UNCHANGED ledger
  /\ UNCHANGED << fs, dirs, dry_run, seen, log, skipped, walkVars, restoreVars,
                  clock, budget, fs0, dirs0, ledger0, folder, term, ioerr, nerr >>

\* a run that undoes its moves when it cannot write the ledger
FailWriteLedgerRollback ==
  /\ pc = "walk"
  /\ files = {}
  /\ stack = << >>
  /\ WritesLedger(dry_run, log)
  /\ pc' = "idle"
  /\ fs' = fs0
  /\ dirs' = dirs0
  /\ UNCHANGED ledger
  /\ hist' = Append(hist, [Finished("organize", TRUE, ledger) EXCEPT
                             !.fs1 = fs0, !.dirs1 = dirs0, !.out = "write-failed"])
  /\ Fault
  /\ UNCHANGED << dry_run, seen, log, skipped, walkVars, restoreVars,
                  clock, budget, fs0, dirs0, ledger0, folder, term >>

\* the walk is over and writing the ledger fails: open() failed and the old
\* ledger is still there, or json.dump failed and left a truncated file; a
\* warning is printed and organize returns
FailWriteLedger ==
  /\ pc = "walk"
  /\ files = {}
  /\ stack = << >>
  /\ WritesLedger(dry_run, log)
  /\ pc' = "idle"
  /\ ledger' \in { ledger, [kind |-> "corrupt", timestamp |-> 0, moves |-> << >>] }
  /\ hist' = Append(hist, [Finished("organize", TRUE, ledger') EXCEPT !.out = "write-failed"])
  /\ Fault
  /\ UNCHANGED << fs, dirs, dry_run, seen, log, skipped, walkVars, restoreVars,
                  clock, budget, fs0, dirs0, ledger0, folder, term >>

\* ----------------------------------------------------------------- restore
\* reversed(data["moves"])
RECURSIVE Reversed(_)
\* a loop over data["moves"] in the order recorded
NotReversed(sq) == sq

Reversed(sq) == IF sq = << >> THEN << >> ELSE Append(Reversed(Tail(sq)), Head(sq))

\* "from" not in move or "to" not in move
InvalidEntry(move) == "from" \notin DOMAIN move \/ "to" \notin DOMAIN move

\* a restore that opens the ledger without looking whether it exists and
\* without catching IOError
LoadLedgerUnchecked(led) ==
  IF led.kind = "none" THEN [exc |-> "FileNotFoundError", out |-> "raised"]
  ELSE [exc |-> "none", out |-> "loop"]

\* what restore makes of the ledger file before its loop.  The kinds of
\* file: "none" (no file), "undecodable" (bytes that are not UTF-8:
\* open/json.load raise UnicodeDecodeError, which no handler catches),
\* "corrupt" (text that is not JSON), "scalar" (JSON null, true, false or a
\* number: '"moves" not in data' raises TypeError), "nomoves" (a JSON
\* object, array or string without a "moves" list), "ok" (a moves list)
LoadLedger(led) ==
  CASE led.kind = "none" -> [exc |-> "none", out |-> "no-log"]
    [] led.kind = "undecodable" -> [exc |-> "UnicodeDecodeError", out |-> "raised"]
    [] led.kind = "corrupt" -> [exc |-> "none", out |-> "corrupted"]
    [] led.kind = "scalar" -> [exc |-> "TypeError", out |-> "raised"]
    [] led.kind = "nomoves" -> [exc |-> "none", out |-> "invalid-format"]
    [] OTHER -> [exc |-> "none", out |-> "loop"]

\* restore(folder) up to the loop: no ledger, an unparsable ledger or one
\* without a moves list end the call at once
RestoreCall ==
  /\ pc = "idle"
  /\ budget > 0
  /\ budget' = budget - 1
  /\ clock' = clock + 1
  /\ fs0' = fs
  /\ dirs0' = dirs
  /\ ledger0' = ledger
  /\ restored_count' = 0
  /\ failed_count' = 0
  /\ ioerr' = FALSE
  /\ UNCHANGED nerr
  /\ LET r == LoadLedger(ledger) IN
     IF r.out = "loop"
     THEN /\ pc' = "restore"
          /\ queue' = Reversed(ledger.moves)
          /\ UNCHANGED hist
     ELSE /\ pc' = "idle"
          /\ queue' = << >>
          /\ hist' = Append(hist,
               [Finished("restore", FALSE, ledger) EXCEPT
                  !.fs0 = fs, !.dirs0 = dirs, !.ledger0 = ledger,
                  !.restored = 0, !.failed = 0, !.exc = r.exc, !.out = r.out])
  /\ UNCHANGED << fs, dirs, ledger, seen, log, skipped, walkVars, term, folder >>

\* restore(folder) called on its own
StartRestore == RestoreCall /\ UNCHANGED dry_run

\* main with --restore: restore(args.folder) is called whatever the value
\* of args.dry_run, which restore is not given
MainRestore(dry) == RestoreCall /\ dry_run' = dry

\* a loop that stops at the first record whose file is missing
AfterSkipBreak(q) == << >>

\* continue: the loop goes on with the records after the skipped one
AfterSkip(q) == Tail(q)

\* one iteration of restore's loop
RestoreStep ==
  /\ pc = "restore"
  /\ queue # << >>
  /\ LET move == Head(queue) IN
     \/ /\ InvalidEntry(move)
        /\ queue' = Tail(queue)
        /\ failed_count' = failed_count + 1
        /\ UNCHANGED << fs, dirs, restored_count >>
     \/ /\ ~InvalidEntry(move)
        /\ move["to"] \notin DOMAIN fs
        /\ queue' = AfterSkip(queue)
        /\ failed_count' = failed_count + 1
        /\ UNCHANGED << fs, dirs, restored_count >>
     \/ /\ ~InvalidEntry(move)
        /\ move["to"] \in DOMAIN fs
        /\ queue' = Tail(queue)
        /\ dirs' = dirs \cup Prefixes(Dirname(move["from"]))
        /\ fs' = Move(fs, move["to"], move["from"])
        /\ restored_count' = restored_count + 1
        /\ UNCHANGED failed_count
  /\ UNCHANGED << ledger, pc, dry_run, seen, log, skipped, walkVars, startVars, term,
                  ioerr, nerr >>

\* one iteration of restore's loop when os.makedirs or shutil.move raises:
\* the record is counted as failed and the file stays at "to"
FailRestoreStep ==
  /\ pc = "restore"
  /\ queue # << >>
  /\ queue' = Tail(queue)
  /\ LET move == Head(queue) IN
     /\ ~InvalidEntry(move)
     /\ move["to"] \in DOMAIN fs
     /\ \E made \in BOOLEAN :
          dirs' = IF made THEN dirs \cup Prefixes(Dirname(move["from"])) ELSE dirs
  /\ failed_count' = failed_count + 1
  /\ Fault
  /\ UNCHANGED << fs, restored_count >>
  /\ UNCHANGED << ledger, pc, dry_run, seen, log, skipped, walkVars, startVars, term >>

\* a restore that deletes the ledger it has replayed
FinishRestoreConsuming ==
  /\ pc = "restore"
  /\ queue = << >>
  /\ pc' = "idle"
  /\ ledger' = NoLedger
  /\ hist' = Append(hist, Finished("restore", ioerr, NoLedger))
  /\ UNCHANGED << fs, dirs, dry_run, seen, log, skipped, walkVars, restoreVars,
                  clock, budget, fs0, dirs0, ledger0, folder, term, ioerr, nerr >>

\* the loop is over: the counts are reported
FinishRestore ==
  /\ pc = "restore"
  /\ queue = << >>
  /\ pc' = "idle"
  /\ hist' = Append(hist, Finished("restore", ioerr, ledger))
  /\ UNCHANGED << fs, dirs, ledger, dry_run, seen, log, skipped, walkVars, restoreVars,
                  clock, budget, fs0, dirs0, ledger0, folder, term, ioerr, nerr >>

\* ---------------------------------------------------------- specifications
\* the program on a file system that raises no I/O error
Next ==
  \/ \E dry \in BOOLEAN : StartOrganize(dry)
  \/ NextDir
  \/ SkipLogFile
  \/ HandleDuplicate
  \/ KeepOrganized
  \/ Relocate
  \/ FinishOrganize
  \/ StartRestore
  \/ RestoreStep
  \/ FinishRestore

Spec == Init /\ [][Next]_vars

\* one organize call on a file system that raises up to MaxErrs I/O errors
FaultInit ==
  /\ TreeInit
  /\ ledger \in InitLedgers
  /\ pc = "idle"
  /\ budget = 1
  /\ folder = AbsFolder
  /\ RunInit

FaultNext ==
  \/ \E dry \in BOOLEAN : StartOrganize(dry)
  \/ NextDir
  \/ SkipLogFile
  \/ HandleDuplicate
  \/ KeepOrganized
  \/ Relocate
  \/ FinishOrganize
  \/ SkipUnreadable
  \/ KeepDuplicate
  \/ FailRelocate
  \/ FailWriteLedger

FaultSpec == FaultInit /\ [][FaultNext]_vars

\* ------------------------------------------------- restore on any ledger
\* the paths a hand-made ledger names as "from" and as "to"
LedgerFrom ==
  { Join(Folder, Name("a", ".mp3")), Join(<<"sub">>, Name("a", ".mp3")),
    Join(<<"Audio">>, Name("a", ".mp3")) }
LedgerTo ==
  { Join(<<"Audio">>, Name("a", ".mp3")),
    Join(<<"Audio">>, [stem |-> "a", sfx |-> <<1>>, ext |-> ".mp3"]),
    Join(Folder, Name("a", ".mp3")) }
LedgerPaths == LedgerFrom \cup LedgerTo

\* the entries of a moves list: records, and an object without "from"
LedgerEntries ==
  { [from |-> p, to |-> q] : p \in LedgerFrom, q \in LedgerTo }
    \cup { [to |-> Join(<<"Audio">>, Name("a", ".mp3"))] }

\* the entries of a list
Range(sq) == { sq[i] : i \in 1..Len(sq) }

RECURSIVE SeqsUpTo(_, _)
SeqsUpTo(S, n) ==
  IF n = 0 THEN { << >> }
  ELSE LET shorter == SeqsUpTo(S, n - 1)
       IN shorter \cup { Append(sq, x) : sq \in { t \in shorter : Len(t) = n - 1 }, x \in S }

\* the ledger files restore may find: none, not UTF-8, not JSON, a JSON
\* scalar, JSON without a moves list, or any moves list of JSON objects
LedgerFiles ==
  { NoLedger }
    \cup { [kind |-> k, timestamp |-> 0, moves |-> << >>] :
             k \in {"undecodable", "corrupt", "scalar", "nomoves"} }
    \cup { [kind |-> "ok", timestamp |-> 0, moves |-> m] : m \in SeqsUpTo(LedgerEntries, MaxRecords) }

RestoreInit ==
  /\ \E P \in SUBSET LedgerPaths :
       \E extra \in SUBSET { <<"sub">> } :
         /\ fs = [p \in P |-> [id |-> p, content |-> 1]]
         /\ dirs = {Folder} \cup { Dirname(p) : p \in P } \cup extra
  /\ ledger \in LedgerFiles
  /\ pc = "idle"
  /\ budget = MaxOps
  /\ folder = AbsFolder
  /\ RunInit

RestoreNext ==
  \/ StartRestore
  \/ RestoreStep
  \/ FailRestoreStep
  \/ FinishRestore

RestoreSpec == RestoreInit /\ [][RestoreNext]_vars

\* ----------------------------- restore on files that differ in content
\* one restore call, without I/O errors, on a ledger of well-formed records
\* and a tree whose files hold any contents
RestoreTreeInit ==
  /\ \E P \in SUBSET LedgerPaths :
       \E c \in { x \in [P -> Contents] : Canonical(x) } :
         /\ fs = [p \in P |-> [id |-> p, content |-> c[p]]]
         /\ dirs = {Folder} \cup { Dirname(p) : p \in P }
  /\ ledger \in { led \in LedgerFiles :
                    led.kind = "ok" /\ \A r \in Range(led.moves) : ~InvalidEntry(r) }
  /\ pc = "idle"
  /\ budget = 1
  /\ folder = AbsFolder
  /\ RunInit

RestoreTreeNext ==
  \/ StartRestore
  \/ RestoreStep
  \/ FinishRestore

RestoreTreeSpec == RestoreTreeInit /\ [][RestoreTreeNext]_vars

\* ------------------------------------------------------- safe_move by itself
Dest == << "new", "dest" >>
SrcDir(i) == << "src" \o ToString(i) >>
FileTxt == Name("file", ".txt")
FileTxtN(i) == [stem |-> "file", sfx |-> << i >>, ext |-> ".txt"]

\* every source directory holds file.txt, file(1).txt or nothing; the
\* destination holds any of file.txt, file(1).txt, file(2).txt, other.txt
SafeMoveInit ==
  /\ \E src \in [1..MaxMoves -> {"none", "plain", "numbered"}] :
       \E held \in SUBSET { FileTxt, FileTxtN(1), FileTxtN(2), Name("other", ".txt") } :
         LET S == { Join(SrcDir(i), FileTxt) : i \in { j \in 1..MaxMoves : src[j] = "plain" } }
                    \cup { Join(SrcDir(i), FileTxtN(1)) : i \in { j \in 1..MaxMoves : src[j] = "numbered" } }
             D == { Join(Dest, n) : n \in held }
         IN /\ fs = [p \in S \cup D |-> [id |-> p, content |-> 1]]
            /\ dirs = {Folder} \cup { SrcDir(i) : i \in 1..MaxMoves }
                        \cup (IF held = {} THEN {} ELSE Prefixes(Dest))
  /\ ledger = NoLedger
  /\ pc = "safe_move"
  /\ budget = 0
  /\ folder = AbsFolder
  /\ RunInit

\* the source of the next call: the sources are moved in their order
NextSource(n) == Join(SrcDir(Len(hist) + 1), n)

SafeMoveFrame ==
  UNCHANGED << ledger, pc, dry_run, seen, log, skipped, walkVars, restoreVars,
               clock, budget, fs0, dirs0, ledger0, folder, term >>

\* one call safe_move(src, Dest): a missing source raises FileNotFoundError,
\* otherwise the directory is made and the file moved to the name found
SafeMoveCall ==
  /\ pc = "safe_move"
  /\ Len(hist) < MaxMoves
  /\ \E n \in { FileTxt, FileTxtN(1) } :
       LET src == NextSource(n)
           call == [op |-> "safe_move", src |-> src, dest |-> Dest, fs0 |-> fs, dirs0 |-> dirs]
       IN \/ /\ FilesIn(fs, Dirname(src)) = {}
             /\ n = FileTxt
             /\ hist' = Append(hist, call @@ [err |-> TRUE, fs1 |-> fs, dirs1 |-> dirs])
             /\ UNCHANGED << fs, dirs >>
          \/ /\ src \in DOMAIN fs
             /\ dirs' = dirs \cup Prefixes(Dest)
             /\ fs' = SafeMoved(fs, src, Dest)
             /\ hist' = Append(hist, call @@ [err |-> FALSE, fs1 |-> fs', dirs1 |-> dirs',
                                              new |-> NewPath(fs, src, Dest)])
  /\ UNCHANGED << ioerr, nerr >>
  /\ SafeMoveFrame

\* one call safe_move(src, Dest) in which os.makedirs or shutil.move raises
FailSafeMove ==
  /\ pc = "safe_move"
  /\ Len(hist) < MaxMoves
  /\ \E n \in { FileTxt, FileTxtN(1) } :
       LET src == NextSource(n)
           call == [op |-> "safe_move", src |-> src, dest |-> Dest, fs0 |-> fs, dirs0 |-> dirs]
       IN /\ src \in DOMAIN fs
          /\ \E made \in BOOLEAN : dirs' = IF made THEN dirs \cup Prefixes(Dest) ELSE dirs
          /\ hist' = Append(hist, call @@ [err |-> TRUE, fs1 |-> fs, dirs1 |-> dirs'])
  /\ Fault
  /\ UNCHANGED fs
  /\ SafeMoveFrame

SafeMoveNext ==
  \/ SafeMoveCall
  \/ FailSafeMove

SafeMoveSpec == SafeMoveInit /\ [][SafeMoveNext]_vars

\* ------------------------------------------------- the walk on nested trees
\* files in the folder, one and two levels down, inside and below a category
\* folder, and a nested file that has the ledger's name
WalkPaths ==
  { Join(Folder, Name("a", ".mp3")), Join(<<"sub">>, Name("a", ".mp3")),
    Join(<<"sub", "deep">>, Name("a", ".mp3")), Join(<<"sub", "deep">>, Name("a", ".pdf")),
    Join(<<"sub", "deep">>, LOG_FILE),
    Join(<<"Audio">>, Name("a", ".mp3")), Join(<<"Audio", "old">>, Name("a", ".mp3")) }

\* one organize call on such a tree, with up to MaxErrs I/O errors
WalkInit ==
  /\ \E P \in { Q \in SUBSET WalkPaths : Cardinality(Q) <= MaxFiles } :
       \E c \in { x \in [P -> Contents] : Canonical(x) } :
         \E extra \in SUBSET { <<"Audio">> } :
           /\ fs = [p \in P |-> [id |-> p, content |-> c[p]]]
           /\ dirs = UNION { Prefixes(Dirname(p)) : p \in P } \cup {Folder} \cup extra
  /\ ledger = NoLedger
  /\ pc = "idle"
  /\ budget = 1
  /\ folder = AbsFolder
  /\ RunInit

\* the two for loops of organize take their next step: nothing in them waits
WalkStep ==
  \/ NextDir
  \/ SkipLogFile
  \/ HandleDuplicate
  \/ KeepOrganized
  \/ Relocate
  \/ FinishOrganize
  \/ SkipUnreadable
  \/ KeepDuplicate
  \/ FailRelocate
  \/ FailWriteLedger

WalkSpec == WalkInit /\ [][FaultNext]_vars /\ WF_vars(WalkStep)

\* ---------------------------------------------- extensions of every spelling
\* the extensions os.path.splitext can hand to category: known ones in
\* lower, upper and mixed case, an unknown one, none ("a"), a lone dot ("a.")
Exts ==
  { ".pdf", ".PDF", ".Pdf", ".mp3", ".MP3", ".gif", ".g<U+0131>f", ".xyz", ".XYZ", "", "." }

\* a file a<ext> in the folder for every extension, and one already in place
ExtPaths ==
  { Join(Folder, Name("a", e)) : e \in Exts } \cup { Join(<<"Documents">>, Name("a", ".PDF")) }

ExtInit ==
  /\ \E P \in { Q \in SUBSET ExtPaths : Cardinality(Q) <= MaxFiles } :
       \E c \in { x \in [P -> Contents] : Canonical(x) } :
         \E extra \in SUBSET { <<"Documents">> } :
           /\ fs = [p \in P |-> [id |-> p, content |-> c[p]]]
           /\ dirs = {Folder} \cup { Dirname(p) : p \in P } \cup extra
  /\ ledger \in InitLedgers
  /\ pc = "idle"
  /\ budget = 1
  /\ folder = AbsFolder
  /\ RunInit

\* one organize or restore call on such a tree
ExtSpec == ExtInit /\ [][Next]_vars

\* ------------------------------------------------------------ command line
\* what the folder argument may name: the folder, a path where nothing is, a
\* file, or the folder without read permission
Targets == { "dir", "missing", "file", "unreadable" }

\* os.path.exists, os.path.isdir and os.access(.., os.R_OK) on the argument
Exists(t) == t # "missing"
IsDir(t) == t \in { "dir", "unreadable" }
Readable(t) == t \in { "dir", "file" }

\* checks that ask for read access before anything else
PrecheckAccessFirst(t) ==
  IF ~Readable(t) THEN [exc |-> "PermissionError", out |-> "cannot-read"]
  ELSE IF ~Exists(t) THEN [exc |-> "ValueError", out |-> "not-exist"]
  ELSE IF ~IsDir(t) THEN [exc |-> "ValueError", out |-> "not-a-directory"]
  ELSE [exc |-> "none", out |-> "done"]

\* the checks at the head of organize
Precheck(t) ==
  IF ~Exists(t) THEN [exc |-> "ValueError", out |-> "not-exist"]
  ELSE IF ~IsDir(t) THEN [exc |-> "ValueError", out |-> "not-a-directory"]
  ELSE IF ~Readable(t) THEN [exc |-> "PermissionError", out |-> "cannot-read"]
  ELSE [exc |-> "none", out |-> "done"]

\* the record of a call that raised before it did anything
Rejected(op, t, r) ==
  [Finished(op, FALSE, ledger) EXCEPT
     !.fs0 = fs, !.dirs0 = dirs, !.ledger0 = ledger, !.log = << >>, !.term = {},
     !.skipped = 0, !.restored = 0, !.failed = 0,
     !.exc = r.exc, !.out = r.out, !.target = t]

\* organize(folder, dry_run) on an argument that fails a check: it raises
RejectOrganize(dry) ==
  /\ pc = "idle"
  /\ budget > 0
  /\ budget' = budget - 1
  /\ clock' = clock + 1
  /\ \E t \in Targets :
       /\ Precheck(t).exc # "none"
       /\ hist' = Append(hist, Rejected(IF dry THEN "preview" ELSE "organize", t, Precheck(t)))
  /\ UNCHANGED << fs, dirs, ledger, pc, dry_run, seen, log, skipped, walkVars, restoreVars,
                  fs0, dirs0, ledger0, folder, term, ioerr, nerr >>

\* restore(folder) on a path where nothing is: it raises ValueError
RejectRestore ==
  /\ pc = "idle"
  /\ budget > 0
  /\ budget' = budget - 1
  /\ clock' = clock + 1
  /\ hist' = Append(hist, Rejected("restore", "missing",
                                    [exc |-> "ValueError", out |-> "not-exist"]))
  /\ UNCHANGED << fs, dirs, ledger, pc, dry_run, seen, log, skipped, walkVars, restoreVars,
                  fs0, dirs0, ledger0, folder, term, ioerr, nerr >>

\* an exception that organize and restore do not catch leaves the call where
\* it is raised: KeyboardInterrupt at any point, OSError from a print that
\* is outside the try blocks.  What was moved stays moved, no ledger is written
Escape ==
  /\ pc \in { "walk", "restore" }
  /\ pc' = "idle"
  /\ \E e \in { "KeyboardInterrupt", "OSError" } :
       LET op == IF pc = "restore" THEN "restore"
                 ELSE IF dry_run THEN "preview" ELSE "organize"
       IN hist' = Append(hist, [Finished(op, e = "OSError", ledger) EXCEPT
                                  !.exc = e, !.out = "raised"])
  /\ nerr < MaxErrs
  /\ nerr' = nerr + 1
  /\ UNCHANGED << fs, dirs, ledger, dry_run, seen, log, skipped, walkVars, restoreVars,
                  clock, budget, fs0, dirs0, ledger0, folder, term, ioerr >>

\* issubclass(exc, cls) for the exceptions of the model
IsA(exc, cls) ==
  \/ exc = cls
  \/ cls = "Exception" /\ exc \notin { "none", "KeyboardInterrupt" }
  \/ cls = "OSError" /\ exc \in { "PermissionError", "FileNotFoundError" }
  \/ cls = "ValueError" /\ exc = "UnicodeDecodeError"

\* the except clauses of main, in their order, with the status each exits with
Handlers ==
  << [cls |-> "KeyboardInterrupt", code |-> 130],
     [cls |-> "ValueError", code |-> 1],
     [cls |-> "PermissionError", code |-> 13],
     [cls |-> "OSError", code |-> 1],
     [cls |-> "Exception", code |-> 1] >>

RECURSIVE ExitFrom(_, _)
ExitFrom(exc, i) ==
  IF i > Len(Handlers) THEN 0
  ELSE IF IsA(exc, Handlers[i].cls) THEN Handlers[i].code
  ELSE ExitFrom(exc, i + 1)

\* the exit status of main when the engine call ended with exc
ExitCode(exc) == IF exc = "none" THEN 0 ELSE ExitFrom(exc, 1)

\* the trees of the command-line runs: a.mp3 and a.pdf in the folder or
\* absent, Audio/ there or not
CliInit ==
  /\ \E P \in SUBSET { Join(Folder, Name("a", ".mp3")), Join(Folder, Name("a", ".pdf")) } :
       \E extra \in SUBSET { <<"Audio">> } :
         /\ fs = [p \in P |-> [id |-> p, content |-> 1]]
         /\ dirs = {Folder} \cup extra
  /\ ledger \in InitLedgers
  /\ pc = "idle"
  /\ budget = MaxOps
  /\ folder \in FolderArgs
  /\ RunInit

\* main: organize or restore on the folder argument, with or without
\* --dry-run, any way the call can end
CliNext ==
  \/ \E dry \in BOOLEAN : StartOrganize(dry)
  \/ NextDir
  \/ SkipLogFile
  \/ HandleDuplicate
  \/ KeepOrganized
  \/ Relocate
  \/ FinishOrganize
  \/ \E dry \in BOOLEAN : MainRestore(dry)
  \/ RestoreStep
  \/ FinishRestore
  \/ \E dry \in BOOLEAN : RejectOrganize(dry)
  \/ RejectRestore
  \/ Escape

CliSpec == CliInit /\ [][CliNext]_vars

\* ------------------------------------------------------------------ claims
Runs == { hist[i] : i \in 1..Len(hist) }
LiveRuns == { h \in Runs : h.op = "organize" }
CleanLiveRuns == { h \in LiveRuns : ~h.err }

\* the files of fsys with content c
WithContent(fsys, c) == { p \in DOMAIN fsys : fsys[p].content = c }

\* p is directly inside the category folder of its extension
InCategoryFolder(p) == Dirname(p) = DestDir(Basename(p))

\* the records of a log, as a set
Records(lg) == { lg[i] : i \in 1..Len(lg) }

\* C1: after a live run without I/O errors, of two or more files with the
\* same content exactly one is left, and it is in its category folder
C1_OneCopySurvives ==
  \A h \in CleanLiveRuns :
    \A c \in Contents :
      Cardinality(WithContent(h.fs0, c)) >= 2 =>
        /\ Cardinality(WithContent(h.fs1, c)) = 1
        /\ \A p \in WithContent(h.fs1, c) : InCategoryFolder(p)

\* C2: a preview run changes no file, no directory and not the ledger, at
\* any point of the run and when it has finished
C2_PreviewChangesNothing ==
  /\ (pc = "walk" /\ dry_run) => (fs = fs0 /\ dirs = dirs0 /\ ledger = ledger0)
  /\ \A h \in Runs :
       h.op = "preview" => (h.fs1 = h.fs0 /\ h.dirs1 = h.dirs0 /\ h.ledger1 = h.ledger0)

\* a preview run has finished that reported a relocation and a duplicate,
\* in a folder that holds a ledger
C2_Witness ==
  \E h \in Runs :
    /\ h.op = "preview"
    /\ h.ledger0.kind = "ok"
    /\ \E e \in h.term : e.st = "Relocated"
    /\ \E e \in h.term : e.st = "Duplicate-Removed"

\* C3: restore right after a live run (no I/O errors in either) puts every
\* relocated file back at its original path and leaves none at a moved path
C3_RestoreUndoesOrganize ==
  \A i \in 2..Len(hist) :
    (/\ hist[i].op = "restore" /\ ~hist[i].err
     /\ hist[i-1].op = "organize" /\ ~hist[i-1].err) =>
      \A r \in Records(hist[i-1].log) :
        /\ r["from"] \in DOMAIN hist[i].fs1
        /\ hist[i].fs1[r["from"]] = hist[i-1].fs0[r["from"]]
        /\ r["to"] \notin DOMAIN hist[i].fs1

\* the finished restore calls that read a moves list of records whose
\* "to" files all existed, and met no I/O error
FullRestores ==
  { h \in Runs :
      /\ h.op = "restore" /\ ~h.err
      /\ h.ledger0.kind = "ok"
      /\ \A r \in Records(h.ledger0.moves) : ~InvalidEntry(r) /\ r["to"] \in DOMAIN h.fs0 }

\* every record's file is at "from", its directory exists, none is at "to"
AllBack(h) ==
  \A r \in Records(h.ledger0.moves) :
    /\ r["from"] \in DOMAIN h.fs1
    /\ Dirname(r["from"]) \in h.dirs1
    /\ r["to"] \notin DOMAIN h.fs1

DisjointMoves(m) ==
  /\ \A i, j \in 1..Len(m) : i # j => (m[i]["from"] # m[j]["from"] /\ m[i]["to"] # m[j]["to"])
  /\ \A i, j \in 1..Len(m) : m[i]["to"] # m[j]["from"]

C5_EveryFileRelocated ==
  \A h \in CleanLiveRuns :
    (/\ \A p, q \in DOMAIN h.fs0 : p # q => h.fs0[p].content # h.fs0[q].content
     /\ \A p, q \in DOMAIN h.fs0 : p # q => Basename(p) # Basename(q)
     /\ \A p \in DOMAIN h.fs0 : ~InCategoryFolder(p)
     /\ h.fs0 # << >>) =>
      /\ \A p \in DOMAIN h.fs0 :
           LET new == Join(DestDir(Basename(p)), Basename(p)) IN
           /\ new \in DOMAIN h.fs1
           /\ h.fs1[new] = h.fs0[p]
           /\ p \notin DOMAIN h.fs1
      /\ h.ledger1.kind = "ok"
      /\ Len(h.ledger1.moves) = Cardinality(DOMAIN h.fs0)
      /\ Records(h.ledger1.moves) =
           { [from |-> p, to |-> Join(DestDir(Basename(p)), Basename(p))] : p \in DOMAIN h.fs0 }

\* C6 as stated: a file inside its category folder at the start of a live
\* run is still there, unchanged, at the end and has no ledger record
C6_Original ==
  \A h \in LiveRuns :
    \A p \in DOMAIN h.fs0 :
      InCategoryFolder(p) =>
        /\ p \in DOMAIN h.fs1
        /\ h.fs1[p] = h.fs0[p]
        /\ \A r \in Records(h.log) : r["from"] # p

\* C6, amended: a file inside its category folder at the start of a live
\* run never gets a ledger record and is never relocated; it is left
\* untouched unless another file has the same content and the walk deleted
\* it as a duplicate
C6_OrganizedFileKeptOrDuplicate ==
  \A h \in LiveRuns :
    \A p \in DOMAIN h.fs0 :
      InCategoryFolder(p) =>
        /\ \A r \in Records(h.log) : r["from"] # p
        /\ \A e \in h.term : e.id = h.fs0[p].id => e.st # "Relocated"
        /\ \/ p \in DOMAIN h.fs1 /\ h.fs1[p] = h.fs0[p]
           \/ /\ \E e \in h.term : e.id = h.fs0[p].id /\ e.st = "Duplicate-Removed" /\ e.at = p
              /\ \E q \in DOMAIN h.fs0 : q # p /\ h.fs0[q].content = h.fs0[p].content

\* a live run has finished that left alone a file of its category folder
\* while it relocated another file
C6_Witness ==
  \E h \in LiveRuns :
    \E p \in DOMAIN h.fs0 :
      /\ InCategoryFolder(p)
      /\ \E e \in h.term : e.id = h.fs0[p].id /\ e.st = "Already-Organized" /\ e.at = p
      /\ p \in DOMAIN h.fs1
      /\ h.log # << >>

\* the successful safe_move calls
SafeMoves == { h \in Runs : h.op = "safe_move" /\ ~h.err }

\* C7: safe_move lands on <dest>/<base><ext> when that is free and else on
\* <dest>/<base>(i)<ext> for the smallest unused i >= 1; every other file is
\* where and what it was; and k files named file.txt moved one after another
\* into a destination that holds none of these names become file.txt,
\* file(1).txt, ..., file(k-1).txt
C7_SafeMoveNeverOverwrites ==
  /\ \A h \in SafeMoves :
       LET se == Splitext(Basename(h.src))
           plain == Join(h.dest, Plain(se[1], se[2]))
           numbered(i) == Join(h.dest, Numbered(se[1], i, se[2]))
       IN /\ h.new \notin DOMAIN h.fs0
          /\ plain \notin DOMAIN h.fs0 => h.new = plain
          /\ plain \in DOMAIN h.fs0 =>
               \E i \in 1..Cardinality(DOMAIN h.fs0) :
                 /\ h.new = numbered(i)
                 /\ \A j \in 1..(i - 1) : numbered(j) \in DOMAIN h.fs0
          /\ \A p \in DOMAIN h.fs0 \ {h.src} : p \in DOMAIN h.fs1 /\ h.fs1[p] = h.fs0[p]
          /\ DOMAIN h.fs1 = (DOMAIN h.fs0 \ {h.src}) \cup {h.new}
          /\ h.fs1[h.new] = h.fs0[h.src]
  /\ (/\ hist # << >>
      /\ \A k \in 1..Len(hist) :
           hist[k].op = "safe_move" /\ ~hist[k].err /\ Basename(hist[k].src) = FileTxt
      /\ \A n \in FilesIn(hist[1].fs0, Dest) : n.stem # "file") =>
       \A k \in 1..Len(hist) :
         hist[k].new = Join(Dest, IF k = 1 THEN FileTxt ELSE FileTxtN(k - 1))

\* three files named file.txt have been moved into a destination that held
\* another file, the third landing on file(2).txt
C7_Witness ==
  /\ Len(hist) = 3
  /\ \A k \in 1..3 : hist[k].op = "safe_move" /\ ~hist[k].err /\ Basename(hist[k].src) = FileTxt
  /\ FilesIn(hist[1].fs0, Dest) = { Name("other", ".txt") }
  /\ hist[3].new = Join(Dest, FileTxtN(2))
  /\ Join(Dest, Name("other", ".txt")) \in DOMAIN fs

\* the terminal states a run gave the file that was at p when it started
StatesOf(h, p) == { e \in h.term : e.id = h.fs0[p].id }

\* C8: a run's ledger has one record for each relocated file and none for
\* a file that was skipped, already organized or deleted as a duplicate
C8_RecordsAreRelocations ==
  \A h \in LiveRuns :
    /\ \A p \in DOMAIN h.fs0 :
         Cardinality({ i \in 1..Len(h.log) : h.log[i]["from"] = p }) =
           (IF \E e \in StatesOf(h, p) : e.st = "Relocated" THEN 1 ELSE 0)
    /\ \A r \in Records(h.log) :
         /\ r["from"] \in DOMAIN h.fs0
         /\ \A e \in StatesOf(h, r["from"]) : e.st = "Relocated"

\* C9: in one run every file reaches exactly one terminal state
C9_OneTerminalState ==
  \A h \in Runs :
    h.op \in {"organize", "preview"} =>
      \A p \in DOMAIN h.fs0 : Cardinality(StatesOf(h, p)) = 1

\* C10: a live run right after a live run that had no I/O error moves and
\* deletes nothing and leaves the ledger as the first run wrote it
C10_SecondRunIsNoOp ==
  \A i \in 2..Len(hist) :
    (/\ hist[i].op = "organize"
     /\ hist[i-1].op = "organize" /\ ~hist[i-1].err) =>
      /\ hist[i].fs1 = hist[i].fs0
      /\ hist[i].dirs1 = hist[i].dirs0
      /\ hist[i].ledger1 = hist[i].ledger0
      /\ hist[i].log = << >>

\* a second live run has finished over files the first run relocated
C10_Witness ==
  \E i \in 2..Len(hist) :
    /\ hist[i].op = "organize"
    /\ hist[i-1].op = "organize" /\ ~hist[i-1].err
    /\ hist[i-1].ledger1.kind = "ok"
    /\ hist[i-1].ledger1.timestamp = i - 1
    /\ \E e \in hist[i].term : e.st = "Already-Organized"

\* the finished restore calls on an existing folder
Restores == { h \in Runs : h.op = "restore" /\ h.target = "dir" }

\* C11: restore on a folder that holds no ledger file returns normally and
\* leaves every file and directory as it was, and creates no ledger
C11_NoLedgerNoChange ==
  \A h \in Restores :
    h.ledger0.kind = "none" =>
      /\ h.exc = "none"
      /\ h.fs1 = h.fs0
      /\ h.dirs1 = h.dirs0
      /\ h.ledger1 = h.ledger0
      /\ h.restored = 0 /\ h.failed = 0

\* a restore has returned from a folder that holds files but no ledger
C11_Witness ==
  \E h \in Restores :
    /\ h.ledger0.kind = "none"
    /\ h.out = "no-log"
    /\ h.fs0 # << >>

\* C12: restore on a ledger file that is unparsable, or parses but has no
\* moves list, reports a corruption error and changes no file or directory
C12_BadLedgerReported ==
  \A h \in Restores :
    h.ledger0.kind \in {"undecodable", "corrupt", "scalar", "nomoves"} =>
      /\ h.out \in {"corrupted", "invalid-format"}
      /\ h.fs1 = h.fs0
      /\ h.dirs1 = h.dirs0

\* the well-formed records of a moves list
ValidRecords(m) == { r \in Records(m) : ~InvalidEntry(r) }

\* no path is the "to" of one record and the "from" of a record
NoToIsFrom(m) ==
  \A r, q \in ValidRecords(m) : r["to"] # q["from"]

\* the second of two consecutive restores counts every record as failed,
\* raises nothing and changes nothing
SecondRestoreFails(i) ==
  /\ hist[i].restored = 0
  /\ hist[i].failed = Len(hist[i].ledger0.moves)
  /\ hist[i].exc = "none"
  /\ hist[i].fs1 = hist[i].fs0
  /\ hist[i].dirs1 = hist[i].dirs0

\* C13 as stated: of two restores in a row on one ledger, the second counts
\* every record as failed, raises no error and changes nothing
C13_Original ==
  \A i \in 2..Len(hist) :
    (/\ hist[i].op = "restore" /\ hist[i-1].op = "restore"
     /\ hist[i].ledger0.kind = "ok") =>
      SecondRestoreFails(i)

\* C13, amended: of two restores in a row on one ledger in which no "to"
\* path is also a "from" path, the first having met no I/O error, the second
\* counts every record as failed, raises no error and changes nothing
C13_SecondRestoreFailsAll ==
  \A i \in 2..Len(hist) :
    (/\ hist[i].op = "restore" /\ hist[i-1].op = "restore"
     /\ hist[i].ledger0.kind = "ok"
     /\ ~hist[i-1].err
     /\ NoToIsFrom(hist[i].ledger0.moves)) =>
      SecondRestoreFails(i)

\* a second restore has failed on both records the first one restored
C13_Witness ==
  \E i \in 2..Len(hist) :
    /\ hist[i].op = "restore" /\ hist[i-1].op = "restore"
    /\ NoToIsFrom(hist[i].ledger0.moves)
    /\ hist[i-1].restored = 2
    /\ hist[i].failed = 2

\* C14: in restore, a record whose file is not at its "to" path is counted
\* as failed, nothing is created or moved, the loop goes on with the next
\* record, and the call returns having counted every record
C14_MissingFileSkipped ==
  /\ [][ (/\ pc = "restore"
          /\ queue # << >>
          /\ ~InvalidEntry(Head(queue))
          /\ Head(queue)["to"] \notin DOMAIN fs) =>
           (/\ fs' = fs
            /\ dirs' = dirs
            /\ failed_count' = failed_count + 1
            /\ restored_count' = restored_count
            /\ queue' = Tail(queue)
            /\ pc' = "restore") ]_vars
  /\ [](\A h \in Restores :
          h.ledger0.kind = "ok" =>
            /\ h.exc = "none"
            /\ h.restored + h.failed = Len(h.ledger0.moves))

\* a restore has skipped the record it came to first, whose file was
\* missing, and then restored the other record
C14_Witness ==
  \E h \in Restores :
    /\ h.ledger0.kind = "ok"
    /\ Len(h.ledger0.moves) = 2
    /\ \A r \in Records(h.ledger0.moves) : ~InvalidEntry(r)
    /\ h.ledger0.moves[2]["to"] \notin DOMAIN h.fs0
    /\ h.ledger0.moves[1]["from"] \notin DOMAIN h.fs0
    /\ h.failed = 1
    /\ h.restored = 1

\* the finished organize calls, live and preview
Walks == { h \in Runs : h.op \in {"organize", "preview"} }

\* the files of a run whose fingerprinting or move failed
SkippedIn(h) == { e \in h.term : e.st = "Skipped-Error" }

\* C15: a run in which fingerprinting or moving a file fails still returns
\* normally; the file is where it was, it has no ledger record, it is
\* counted in skipped, and every file of the tree has been handled
C15_LocalFailureSkipsFile ==
  \A h \in Walks :
    SkippedIn(h) # {} =>
      /\ h.exc = "none"
      /\ h.skipped = Cardinality(SkippedIn(h))
      /\ \A e \in SkippedIn(h) :
           /\ e.at \in DOMAIN h.fs1
           /\ h.fs1[e.at].id = e.id
           /\ \A r \in Records(h.log) : r["from"] # e.id /\ r["to"] # e.at
      /\ \A p \in DOMAIN h.fs0 : StatesOf(h, p) # {}

\* <folder>/.organize_log.json
LogPath == Join(Folder, LOG_FILE)

\* the ledger file appears nowhere in what a walk has recorded
LedgerUntouched(lg, tm) ==
  /\ \A r \in Records(lg) : r["from"] # LogPath /\ r["to"] # LogPath
  /\ \A e \in tm : e.at # LogPath /\ e.id # LogPath

\* C16: during a walk the ledger file is as the run found it and is no
\* fingerprinted, relocated, deleted or reported file; after the run a
\* ledger that was there is still there, untouched by a preview run
C16_LedgerFileLeftAlone ==
  /\ pc = "walk" =>
       /\ ledger = ledger0
       /\ LedgerUntouched(log, term)
       /\ \A d \in DOMAIN seen : seen[d] # LogPath
  /\ \A h \in Walks :
       /\ LedgerUntouched(h.log, h.term)
       /\ h.ledger0.kind # "none" => h.ledger1.kind # "none"
       /\ h.op = "preview" => h.ledger1 = h.ledger0

\* a live run and a preview run have finished in a folder that held a
\* ledger, the live run having relocated a file
C16_Witness ==
  /\ \E h \in Walks : h.op = "organize" /\ h.ledger0.kind = "ok" /\ h.log # << >>
  /\ \E h \in Walks : h.op = "preview" /\ h.ledger0.kind = "ok" /\ h.term # {}

\* C17: the ledger is not touched while the walk runs; a run writes it if
\* and only if it is live and moved something, and then the ledger is this
\* run's records and nothing else, each record appended when its move was made
C17_LedgerWrittenOnceAtEnd ==
  /\ [](/\ pc = "walk" => ledger = ledger0
        /\ \A i \in 1..Len(hist) :
             hist[i].op \in {"organize", "preview"} =>
               IF hist[i].op = "organize" /\ hist[i].log # << >>
               THEN hist[i].ledger1 = [kind |-> "ok", timestamp |-> i, moves |-> hist[i].log]
               ELSE hist[i].ledger1 = hist[i].ledger0)
  /\ [][ (pc = "walk" /\ log' # log) =>
           \E src \in DOMAIN fs :
             \E dst \in DOMAIN fs' \ DOMAIN fs :
               /\ log' = Append(log, [from |-> src, to |-> dst])
               /\ src \notin DOMAIN fs'
               /\ fs'[dst] = fs[src] ]_vars

\* a live run has replaced a ledger of one record by its own two records,
\* and another run has left the ledger it found
C17_Witness ==
  /\ \E h \in Walks :
       /\ h.op = "organize"
       /\ Len(h.ledger0.moves) = 1
       /\ Len(h.log) = 2
       /\ h.ledger1.moves = h.log
       /\ h.ledger0.moves[1] \notin Records(h.log)
  /\ \E h \in Walks : h.ledger0.kind = "ok" /\ h.ledger1 = h.ledger0

\* C18: when writing the ledger fails at the end of a live run, the step
\* that reports the failure changes no file and no directory and organize
\* returns; the run's moves are in place, no file is back at its "from" path
C18_WriteFailureKeepsMoves ==
  /\ [][ (/\ pc = "walk" /\ pc' = "idle"
          /\ hist'[Len(hist')].out = "write-failed") =>
           (/\ fs' = fs
            /\ dirs' = dirs
            /\ hist'[Len(hist')].exc = "none") ]_vars
  /\ [](\A h \in Walks :
          h.out = "write-failed" =>
            /\ h.op = "organize"
            /\ h.exc = "none"
            /\ h.log # << >>
            /\ \A r \in Records(h.log) : r["from"] \notin DOMAIN h.fs1)

\* a live run has moved two files and then failed to write its ledger
C18_Witness ==
  \E h \in Walks :
    /\ h.out = "write-failed"
    /\ Len(h.log) = 2
    /\ \A r \in Records(h.log) : r["to"] \in DOMAIN h.fs1
    /\ h.ledger1.kind # "ok"

\* C19: organize on a target that is missing, not a directory or unreadable
\* raises ValueError, ValueError, PermissionError, having fingerprinted,
\* moved, deleted and written nothing; and only such a call raises these
C19_BadTargetRaisesFirst ==
  /\ [](\A h \in Walks :
          /\ h.target = "missing" => h.exc = "ValueError"
          /\ h.target = "file" => h.exc = "ValueError"
          /\ h.target = "unreadable" => h.exc = "PermissionError"
          /\ h.target # "dir" => (h.log = << >> /\ h.term = {} /\ h.ledger1 = h.ledger0))
  /\ [][ (/\ Len(hist') = Len(hist) + 1
          /\ hist'[Len(hist')].op \in {"organize", "preview"}
          /\ hist'[Len(hist')].target # "dir") =>
           (/\ pc = "idle" /\ pc' = "idle"
            /\ fs' = fs /\ dirs' = dirs /\ ledger' = ledger
            /\ hist'[Len(hist')].fs1 = fs /\ hist'[Len(hist')].fs0 = fs) ]_vars

\* organize has raised PermissionError on the unreadable folder, which
\* holds a file that the live run before it relocated
C19_Witness ==
  \E i \in 2..Len(hist) :
    /\ hist[i].op = "organize" /\ hist[i].target = "unreadable"
    /\ hist[i].exc = "PermissionError"
    /\ hist[i].fs0 # << >>
    /\ hist[i-1].op = "organize" /\ hist[i-1].log # << >>

\* the five outcomes the exit status is to tell apart
OutcomeOf(exc) ==
  CASE exc = "none" -> "success"
    [] exc = "KeyboardInterrupt" -> "user cancellation"
    [] exc = "ValueError" -> "invalid input/target"
    [] exc = "PermissionError" -> "permission failure"
    [] exc = "OSError" -> "generic I/O failure"
    [] OTHER -> "other"

\* C20: two invocations that end in different ones of the five outcomes
\* exit with different codes
C20_ExitCodesDistinct ==
  \A g, h \in Runs :
    (/\ OutcomeOf(g.exc) # "other" /\ OutcomeOf(h.exc) # "other"
     /\ OutcomeOf(g.exc) # OutcomeOf(h.exc)) =>
      ExitCode(g.exc) # ExitCode(h.exc)

\* C21: an invocation with --dry-run, with or without --restore, changes no
\* file, no directory and not the ledger at any point
C21_DryRunFlagChangesNothing ==
  (pc \in {"walk", "restore"} /\ dry_run) =>
    (fs = fs0 /\ dirs = dirs0 /\ ledger = ledger0)

\* C24: the records of every live run hold absolute "from" and "to" paths,
\* whatever form the folder argument had
C24_RecordsAbsolute ==
  \A h \in Walks :
    \A r \in Records(h.log) :
      /\ IsAbs(PathString(h.folder, r["from"]))
      /\ IsAbs(PathString(h.folder, r["to"]))

\* uppercase(e): str.upper() on the extensions the model uses
Upper(ext) ==
  CASE ext = ".mp3" -> ".MP3"
    [] ext = ".Mp3" -> ".MP3"
    [] ext = ".pdf" -> ".PDF"
    [] ext = ".Pdf" -> ".PDF"
    [] ext = ".gif" -> ".GIF"
    [] ext = ".g<U+0131>f" -> ".GIF"
    [] ext = ".xyz" -> ".XYZ"
    [] OTHER -> ext

\* the extensions of the files a run found
ExtsOf(h) == { Basename(p).ext : p \in DOMAIN h.fs0 }

\* every record of the run leads into the category folder of the lower-cased
\* extension and keeps the stem and the extension as they are spelled
RecordsKeepName(h) ==
  \A r \in Records(h.log) :
    /\ Dirname(r["to"]) = << category(Lower(Basename(r["from"]).ext)) >>
    /\ Basename(r["to"]).stem = Basename(r["from"]).stem
    /\ Basename(r["to"]).ext = Basename(r["from"]).ext

\* C22 as stated: for every extension e, category(e), category(lower(e))
\* and category(upper(e)) are equal, and a relocated file goes to that
\* category's folder under the name it has on disk
C22_Original ==
  \A h \in Walks :
    /\ \A e \in ExtsOf(h) :
         category(e) = category(Lower(e)) /\ category(e) = category(Upper(e))
    /\ RecordsKeepName(h)

\* the extensions spelled in ASCII: all but the one with the dotless i
Ascii(ext) == ext # ".g<U+0131>f"

\* C22, amended: for every extension e, category(e) = category(lower(e)),
\* and for every ASCII extension category(e) = category(upper(e)) as well; a
\* relocated file goes to that category's folder under the name it has on
\* disk
C22_CaseInsensitive ==
  \A h \in Walks :
    /\ \A e \in ExtsOf(h) :
         /\ category(e) = category(Lower(e))
         /\ Ascii(e) => category(e) = category(Upper(e))
    /\ RecordsKeepName(h)

\* a live run has relocated a.PDF and a.Pdf into Documents under their names
C22_Witness ==
  \E h \in LiveRuns :
    /\ [from |-> Join(Folder, Name("a", ".PDF")), to |-> Join(<<"Documents">>, Name("a", ".PDF"))]
         \in Records(h.log)
    /\ [from |-> Join(Folder, Name("a", ".Pdf")), to |-> Join(<<"Documents">>, Name("a", ".Pdf"))]
         \in Records(h.log)

\* the categories whose extension set holds e
Holding(e) == { i \in 1..Len(FILE_TYPES) : e \in FILE_TYPES[i].v }

\* C23: category gives every extension, the empty one and a lone dot
\* included, the one category whose set holds the lower-cased extension, or
\* Others when no set holds it; and that is where organize sends the file
C23_CategoryTotal ==
  \A h \in Walks :
    /\ \A e \in ExtsOf(h) :
         /\ Cardinality(Holding(Lower(e))) <= 1
         /\ \A i \in Holding(Lower(e)) : category(e) = FILE_TYPES[i].k
         /\ Holding(Lower(e)) = {} => category(e) = "Others"
    /\ \A r \in Records(h.log) :
         Dirname(r["to"]) = << category(Basename(r["from"]).ext) >>

\* a live run has relocated the file without extension and the file whose
\* name ends in a dot into Others
C23_Witness ==
  \E h \in LiveRuns :
    /\ [from |-> Join(Folder, Name("a", "")), to |-> Join(<<"Others">>, Name("a", ""))]
         \in Records(h.log)
    /\ [from |-> Join(Folder, Name("a", ".")), to |-> Join(<<"Others">>, Name("a", "."))]
         \in Records(h.log)

C27_SafeMoveDelivers ==
  \A h \in SafeMoves :
    /\ h.src \in DOMAIN h.fs0
    /\ \A n \in 0..Len(h.dest) : SubSeq(h.dest, 1, n) \in h.dirs1
    /\ Dirname(h.new) = h.dest
    /\ h.new \in DOMAIN h.fs1
    /\ h.fs1[h.new] = h.fs0[h.src]
    /\ Splitext(Basename(h.new))[2] = Splitext(Basename(h.src))[2]
    /\ h.src \notin DOMAIN h.fs1

\* safe_move has returned after a call that found neither dest nor the
\* directory above it
C27_Witness ==
  \E h \in SafeMoves :
    /\ h.dest \notin h.dirs0
    /\ SubSeq(h.dest, 1, Len(h.dest) - 1) \notin h.dirs0
    /\ h.new \in DOMAIN h.fs1

\* C28: at every point of restore's loop the records already processed
\* (restored or counted failed) are the last ones of the ledger's moves list
\* and the records still to come are the ones before them, latest first;
\* every iteration processes exactly the latest record not yet processed,
\* and the file it moves is that record's
C28_ReverseOrder ==
  /\ [](pc = "restore" =>
          LET m == ledger0.moves
              done == restored_count + failed_count
          IN /\ done + Len(queue) = Len(m)
             /\ \A k \in 1..Len(queue) : queue[k] = m[Len(queue) - k + 1])
  /\ [][pc = "restore" /\ pc' = "restore" =>
          /\ queue' = Tail(queue)
          /\ restored_count' + failed_count' = restored_count + failed_count + 1
          /\ fs' # fs => fs' = Move(fs, Head(queue)["to"], Head(queue)["from"])]_vars

\* restore is in its loop on a ledger of two different records: the second
\* has been restored, the first is still to come
C28_Witness ==
  /\ pc = "restore"
  /\ Len(ledger0.moves) = 2
  /\ ledger0.moves[1] # ledger0.moves[2]
  /\ queue = << ledger0.moves[1] >>
  /\ restored_count = 1
  /\ fs # fs0

\* the file one iteration of organize's loop handles
Handled == Join(root, CHOOSE f \in files \ files' : TRUE)

\* C29: the index is empty when a walk starts; every entry maps a digest to
\* a path of the start tree whose file has that digest; an iteration never
\* changes or drops an entry, and adds one only for a digest not yet
\* indexed, mapping it to the file it is handling; a file whose digest is
\* indexed adds no entry, gets no ledger record and is not moved: a live run
\* deletes it (unless the deletion itself raises), a preview run leaves it
C29_FirstSeenStays ==
  /\ [](pc = "walk" =>
          \A d \in DOMAIN seen :
            seen[d] \in DOMAIN fs0 /\ sha256(fs0, seen[d]) = d)
  /\ [][pc = "idle" /\ pc' = "walk" => seen' = << >>]_vars
  /\ [][pc = "walk" /\ files # {} /\ files' # files /\ Basename(Handled) # LOG_FILE =>
          LET src == Handled
              h == sha256(fs, src)
          IN /\ \A d \in DOMAIN seen : d \in DOMAIN seen' /\ seen'[d] = seen[d]
             /\ \A d \in DOMAIN seen' \ DOMAIN seen : d = h /\ seen'[d] = src
             /\ h \in DOMAIN seen =>
                  /\ seen' = seen
                  /\ log' = log
                  /\ dirs' = dirs
                  /\ dry_run => fs' = fs
                  /\ ~dry_run => fs' = Remove(fs, src) \/ (fs' = fs /\ nerr' > nerr)]_vars

\* a live walk is under way: it has indexed one file and deleted another
\* file of the same content
C29_Witness ==
  /\ pc = "walk"
  /\ ~dry_run
  /\ \E d \in DOMAIN seen : \E e \in term :
       /\ e.st = "Duplicate-Removed"
       /\ e.at \in DOMAIN fs0
       /\ sha256(fs0, e.at) = d
       /\ e.at # seen[d]
       /\ e.at \notin DOMAIN fs

\* C30: when a live run ends, every "to" path its ledger records exists and
\* holds the file that was at the record's "from" path when the run started
C30_RelocatedFileStays ==
  \A h \in LiveRuns : \A r \in Records(h.log) :
    /\ r["to"] \in DOMAIN h.fs1
    /\ r["from"] \in DOMAIN h.fs0
    /\ h.fs1[r["to"]] = h.fs0[r["from"]]

\* C31: after a restore, every file the tree held before it is still there
\* at some path, with its content
C31_RestoreDestroysNothing ==
  \A h \in Restores :
    \A p \in DOMAIN h.fs0 :
      \E q \in DOMAIN h.fs1 : h.fs1[q].content = h.fs0[p].content

\* C32: in the ledger of every live run the "from" paths are pairwise
\* distinct, the "to" paths are pairwise distinct, no "to" path is a "from"
\* path, and every "to" path lies directly in the category folder of the
\* extension of its "from" path
C32_LedgerWellFormed ==
  \A h \in LiveRuns :
    /\ \A i, j \in 1..Len(h.log) :
         i # j => /\ h.log[i]["from"] # h.log[j]["from"]
                  /\ h.log[i]["to"] # h.log[j]["to"]
    /\ \A r, t \in Records(h.log) : r["to"] # t["from"]
    /\ \A r \in Records(h.log) :
         Dirname(r["to"]) = << category(Splitext(Basename(r["from"]))[2]) >>

\* the files a run reported or handled as st, each with the path it was at
Reported(h, st) == { [id |-> e.id, at |-> e.at] : e \in { x \in h.term : x.st = st } }

\* no two files of the tree hold the same content: whichever order a walk
\* takes, it meets the same first file of every content
DistinctContents(fsys) ==
  \A x, y \in DOMAIN fsys : x # y => fsys[x].content # fsys[y].content

\* C33: a preview run and a live run that start from the same tree agree:
\* the files the preview reports as to be relocated are the files the live
\* run relocates, and the files it reports as duplicates are the files the
\* live run deletes.  Stated for trees of pairwise different contents,
\* where the two runs cannot differ by the order of their walks
C33_PreviewMatchesLive ==
  \A p, l \in Runs :
    (/\ p.op = "preview"
     /\ l.op = "organize"
     /\ p.fs0 = l.fs0
     /\ p.dirs0 = l.dirs0
     /\ DistinctContents(p.fs0)) =>
      /\ Reported(p, "Relocated") = Reported(l, "Relocated")
      /\ Reported(p, "Duplicate-Removed") = Reported(l, "Duplicate-Removed")

\* the directories the walk has still to list: those waiting on its stack
\* and everything below them
ToList(st, ds) ==
  { e \in ds : \E i \in 1..Len(st) : \E d \in st[i] :
                 Len(e) >= Len(d) /\ SubSeq(e, 1, Len(d)) = d }

\* what is left of a walk: the directories to list, then the files of the
\* current directory to handle
Rank(st, ds, fl) == << Cardinality(ToList(st, ds)), Cardinality(fl) >>

Less(a, b) == a[1] < b[1] \/ (a[1] = b[1] /\ a[2] < b[2])

\* C34: every step of a walk leaves less to do than before (fewer
\* directories to list or, with as many, fewer files of the current one),
\* also when it moves a file into a directory still to be listed; the name
\* safe_move picks is the plain one or numbered at most by the count of
\* files in the destination; and every behaviour ends with organize
\* returned for good
C34_Terminates ==
  /\ [][pc = "walk" /\ pc' = "walk" =>
          Less(Rank(stack', dirs', files'), Rank(stack, dirs, files))]_vars
  /\ [][pc = "walk" /\ log' # log =>
          LET r == log'[Len(log')]
              base == Splitext(Basename(r["from"]))[1]
              held == Cardinality(FilesIn(fs, Dirname(r["to"])))
          IN \/ Basename(r["to"]).sfx = base.sfx
             \/ \E i \in 1..held : Basename(r["to"]).sfx = Append(base.sfx, i)]_vars
  /\ <>[](pc = "idle")

\* a live run has ended after moving a file, under a numbered name, into a
\* category folder that the walk listed afterwards, finding the file there
C34_Witness ==
  \E h \in LiveRuns :
    \E e \in h.term :
      /\ e.at \notin DOMAIN h.fs0
      /\ Dirname(e.at) \in h.dirs0
      /\ Basename(e.at).sfx # << >>
      /\ \E r \in Records(h.log) : r["to"] = e.at

====
